---------------------------- MODULE Spec2Model ----------------------------
(***************************************************************************)
(* A model of the leveled logging library in src/logging.go: the level     *)
(* and colour tables, the logger (threshold, handler, leveled methods,     *)
(* Fatal, Panic, Close), the writer and console handlers with the text     *)
(* they write, and the MultiHandler fan-out with its goroutines and        *)
(* WaitGroup.                                                              *)
(*                                                                         *)
(* Text is a sequence of pieces (strings).  A newline is always a piece of *)
(* its own, so the number of newlines a text ends in is the number of      *)
(* trailing "\n" pieces.  The text a sequence stands for is the            *)
(* concatenation of its pieces.                                            *)
(***************************************************************************)
EXTENDS Integers, Sequences, FiniteSets, TLC

(***************************************************************************)
(* Bounds of the model.                                                    *)
(***************************************************************************)
MaxChildren == 2

MaxTime == 1

MaxFormatLen == 3

MaxArgs == 1

(***************************************************************************)
(* Levels and colours (logging.go:19-57).                                  *)
(***************************************************************************)
BLACK == 30

RED == 31

GREEN == 32

YELLOW == 33

BLUE == 34

MAGENTA == 35

CYAN == 36

WHITE == 37

CRITICAL == 0

ERROR == 1

WARNING == 2

NOTICE == 3

INFO == 4

DEBUG == 5

Levels == CRITICAL..DEBUG

\* Level is an int: SetLevel takes the six levels and values beside them.
LevelInputs == (CRITICAL - 1)..(DEBUG + 1)

LevelNames(level) ==
    CASE level = CRITICAL -> "CRITICAL"
      [] level = ERROR    -> "ERROR"
      [] level = WARNING  -> "WARNING"
      [] level = NOTICE   -> "NOTICE"
      [] level = INFO     -> "INFO"
      [] level = DEBUG    -> "DEBUG"
      [] OTHER            -> ""

LevelColors(level) ==
    CASE level = CRITICAL -> MAGENTA
      [] level = ERROR    -> RED
      [] level = WARNING  -> YELLOW
      [] level = NOTICE   -> GREEN
      [] level = INFO     -> WHITE
      [] level = DEBUG    -> CYAN
      [] OTHER            -> 0

DefaultLevel == INFO

DefaultHandler == "K"

(***************************************************************************)
(* Text helpers: strings.HasSuffix(format, "\n") and the count of newlines *)
(* a text ends in.                                                         *)
(***************************************************************************)
NL == "\n"

HasSuffixNL(t) == Len(t) > 0 /\ t[Len(t)] = NL

RECURSIVE TrailingNewlines(_)
TrailingNewlines(t) ==
    IF HasSuffixNL(t) THEN 1 + TrailingNewlines(SubSeq(t, 1, Len(t) - 1)) ELSE 0

(***************************************************************************)
(* fmt.Sprintf(format, args...) for string arguments.  A format is a       *)
(* sequence of characters, an argument a text.  "%%" is a percent sign,    *)
(* "%s" and "%v" print the next argument, any other verb is a bad verb     *)
(* (%!c(string=...)), a verb with no argument left is %!c(MISSING), a "%"  *)
(* at the end is %!(NOVERB), and arguments left over are reported as       *)
(* %!(EXTRA string=..., string=...).                                       *)
(***************************************************************************)
RECURSIVE ExtraArgs(_, _)
ExtraArgs(args, n) ==
    IF n > Len(args) THEN <<>>
    ELSE <<"string=">> \o args[n]
         \o (IF n < Len(args) THEN <<", ">> ELSE <<>>)
         \o ExtraArgs(args, n + 1)

RECURSIVE DoPrintf(_, _, _, _)
DoPrintf(format, i, args, argNum) ==
    IF i > Len(format)
    THEN IF argNum <= Len(args)
         THEN <<"%!(EXTRA ">> \o ExtraArgs(args, argNum) \o <<")">>
         ELSE <<>>
    ELSE IF format[i] # "%"
    THEN <<format[i]>> \o DoPrintf(format, i + 1, args, argNum)
    ELSE IF i = Len(format)
    THEN <<"%!(NOVERB)">> \o DoPrintf(format, i + 1, args, argNum)
    ELSE LET verb == format[i + 1] IN
         IF verb = "%"
         THEN <<"%">> \o DoPrintf(format, i + 2, args, argNum)
         ELSE IF argNum > Len(args)
         THEN <<"%!", verb, "(MISSING)">> \o DoPrintf(format, i + 2, args, argNum)
         ELSE IF verb \in {"s", "v"}
         THEN args[argNum] \o DoPrintf(format, i + 2, args, argNum + 1)
         ELSE <<"%!", verb, "(string=">> \o args[argNum] \o <<")">>
              \o DoPrintf(format, i + 2, args, argNum + 1)

Sprintf(format, args) == DoPrintf(format, 1, args, 1)


(***************************************************************************)
(* prefix(c) (logging.go:286-288): "%s %s %-8s " of the time to the        *)
(* second, the logger's name and the level's name.  The clock counts       *)
(* seconds; TimeStr is the 19 characters fmt.Sprint(c.Time)[:19] keeps.    *)
(***************************************************************************)
TimeStr(t) == "2013-01-01 00:00:0" \o ToString(t)

RECURSIVE Spaces(_)
Spaces(n) == IF n <= 0 THEN "" ELSE " " \o Spaces(n - 1)

PadRight8(s) == s \o Spaces(8 - Len(s))

prefix(c) == <<TimeStr(c.Time), " ", c.Name, " ", PadRight8(LevelNames(c.Level)), " ">>

(***************************************************************************)
(* WriterHandler.Log (logging.go:280-282): one Fprint of the prefix and    *)
(* the formatted message.                                                  *)
(***************************************************************************)
WriterLog(fmt, a, c) == prefix(c) \o Sprintf(fmt, a)

(***************************************************************************)
(* ConsoleHandler.Log (logging.go:304-309): three writes to the stream of  *)
(* the wrapped writer handler.  "^[" stands for the ESC byte (\033).       *)
(***************************************************************************)
ColorEscape(code) == "^[[" \o ToString(code) \o "m"

ResetEscape == "^[[0m"

\* A console handler that resets the colour before it writes the line.
ConsoleWritesResetFirst(fmt, a, c) ==
    << <<ColorEscape(LevelColors(c.Level))>>, <<ResetEscape>>, WriterLog(fmt, a, c) >>

\* The three writes, in order.
ConsoleWrites(fmt, a, c) ==
    << <<ColorEscape(LevelColors(c.Level))>>, WriterLog(fmt, a, c), <<ResetEscape>> >>

RECURSIVE Flatten(_)
Flatten(ws) == IF ws = <<>> THEN <<>> ELSE Head(ws) \o Flatten(Tail(ws))

\* All that one ConsoleHandler.Log leaves on its stream.
ConsoleLog(fmt, a, c) == Flatten(ConsoleWrites(fmt, a, c))

(***************************************************************************)
(* The state.                                                              *)
(***************************************************************************)
VARIABLES
    lName, lLevel, lHandler,   \* the logger's fields
    handlers,                  \* the MultiHandler's children (their kinds)
    now,                       \* the wall clock, in seconds
    proc,                      \* running | exit | panic | crashed
    exitCode,                  \* the status the process ended with
    panicValue,                \* the value Panic raised
    pc,                        \* where the calling goroutine is
    op,                        \* the call in flight (or the last one)
    format, args,              \* the template and arguments last passed
    lfmt, ctx,                 \* logger.log's format and Context
    k, wg, g,                  \* fan-out: loop index, WaitGroup, goroutines
    logs, closes,              \* Log and Close invocations per sink, this call
    clogs, ccloses,            \* the same per child of the MultiHandler
    rcv,                       \* what each child's Log was handed
    written, cwritten,         \* what this call wrote to each stream
    nCtx,                      \* Contexts built by this call
    events,                    \* this call's steps on the logger's sink
    entry,                     \* the logger's fields when the call began
    lastSet                    \* the handler the last SetHandler was given

vars == <<lName, lLevel, lHandler, handlers, now, proc, exitCode, panicValue,
          pc, op, format, args, lfmt, ctx, k, wg, g, logs, closes, clogs,
          ccloses, rcv, written, cwritten, nCtx, events, entry, lastSet>>

loggerVars == <<lName, lLevel, lHandler, lastSet>>

callVars == <<op, format, args, entry>>

fanVars == <<k, wg, g>>

childObs == <<clogs, ccloses, rcv, cwritten>>

endVars == <<proc, exitCode, panicValue>>

(***************************************************************************)
(* The sinks.  W is a WriterHandler and K a ConsoleHandler (the default,   *)
(* StderrHandler), each on a stream of its own; M is a MultiHandler whose  *)
(* children are handlers of their own: writer and console handlers, and    *)
(* "user", a caller's implementation of Handler whose Log and Close may    *)
(* panic.                                                                  *)
(***************************************************************************)
Sinks == {"W", "K", "M"}

Streams == {"W", "K"}

Kinds == {"writer", "console", "user"}

RECURSIVE SeqsUpTo(_, _)
SeqsUpTo(S, n) ==
    IF n = 0 THEN {<<>>}
    ELSE LET shorter == SeqsUpTo(S, n - 1) IN
         shorter \cup {Append(s, x) : s \in shorter, x \in S}

Children == 1..Len(handlers)

LeveledOps == {"Critical", "Error", "Warning", "Notice", "Info", "Debug"}

OpLevel(o) ==
    CASE o = "Critical" -> CRITICAL
      [] o = "Error"    -> ERROR
      [] o = "Warning"  -> WARNING
      [] o = "Notice"   -> NOTICE
      [] o = "Info"     -> INFO
      [] o = "Debug"    -> DEBUG
      [] o \in {"Fatal", "Panic"} -> CRITICAL
      [] OTHER -> -1

(***************************************************************************)
(* The call site runtime.Caller(2) reports from logger.log: the caller of  *)
(* the leveled method; for Fatal and Panic, which call Critical            *)
(* themselves, their own line in logging.go.                               *)
(***************************************************************************)
CallerFile(o) == IF o \in {"Fatal", "Panic"} THEN "logging.go" ELSE "main.go"

CallerLine(o) == CASE o = "Fatal" -> 178 [] o = "Panic" -> 184 [] OTHER -> 10

NoCtx == [Name |-> "", Level |-> -1, Time |-> -1, Filename |-> "", Line |-> -1]

NoRcv == [format |-> <<>>, args |-> <<>>, ctx |-> NoCtx]

(***************************************************************************)
(* The inputs of a call: a format template and its arguments.              *)
(***************************************************************************)
CallInputs ==
    { [format |-> <<"h">>, args |-> <<>>],
      [format |-> <<"%", "s", NL>>, args |-> << <<"o">> >>] }

Alphabet == {"h", NL, "%", "s"}

ArgValues == {<<"o">>, <<"o", NL>>}

WideInputs ==
    { [format |-> f, args |-> a] :
        f \in SeqsUpTo(Alphabet, MaxFormatLen), a \in SeqsUpTo(ArgValues, MaxArgs) }

TypeOK ==
    /\ lLevel \in LevelInputs /\ lHandler \in Sinks /\ now \in 0..MaxTime
    /\ proc \in {"running", "exit", "panic", "crashed"}
    /\ Len(handlers) <= MaxChildren

Init ==
    /\ lName = "svc"
    /\ lLevel = DefaultLevel
    /\ lHandler = DefaultHandler
    /\ lastSet = DefaultHandler
    /\ handlers \in SeqsUpTo(Kinds, MaxChildren)
    /\ now = 0
    /\ proc = "running" /\ exitCode = 0 /\ panicValue = <<>>
    /\ pc = "idle" /\ op = "none" /\ format = <<>> /\ args = <<>>
    /\ lfmt = <<>> /\ ctx = NoCtx
    /\ k = 1 /\ wg = 0 /\ g = [i \in 1..Len(handlers) |-> "none"]
    /\ logs = [h \in Sinks |-> 0] /\ closes = [h \in Sinks |-> 0]
    /\ clogs = [i \in 1..Len(handlers) |-> 0]
    /\ ccloses = [i \in 1..Len(handlers) |-> 0]
    /\ rcv = [i \in 1..Len(handlers) |-> NoRcv]
    /\ written = [s \in Streams |-> <<>>]
    /\ cwritten = [i \in 1..Len(handlers) |-> <<>>]
    /\ nCtx = 0 /\ events = <<>>
    /\ entry = [Name |-> "svc", Level |-> DefaultLevel, Handler |-> DefaultHandler]

(***************************************************************************)
(* A call on the logger begins: what the previous call was seen to do is   *)
(* forgotten, and the logger's fields are noted.                           *)
(***************************************************************************)
BeginCall(o, in) ==
    /\ op' = o /\ format' = in.format /\ args' = in.args
    /\ entry' = [Name |-> lName, Level |-> lLevel, Handler |-> lHandler]
    /\ lfmt' = <<>> /\ ctx' = NoCtx
    /\ k' = 1 /\ wg' = 0 /\ g' = [i \in Children |-> "none"]
    /\ logs' = [h \in Sinks |-> 0] /\ closes' = [h \in Sinks |-> 0]
    /\ clogs' = [i \in Children |-> 0] /\ ccloses' = [i \in Children |-> 0]
    /\ rcv' = [i \in Children |-> NoRcv]
    /\ written' = [s \in Streams |-> <<>>]
    /\ cwritten' = [i \in Children |-> <<>>]
    /\ nCtx' = 0 /\ events' = <<>>

\* A call that takes no template leaves the last one noted.
LastInput == [format |-> format, args |-> args]

(***************************************************************************)
(* logger.SetLevel (logging.go:146-148) and logger.SetHandler              *)
(* (logging.go:150-152).                                                   *)
(***************************************************************************)
SetLevel(level) ==
    /\ proc = "running" /\ pc = "idle"
    /\ lLevel' = level
    /\ BeginCall("SetLevel", LastInput)
    /\ UNCHANGED <<lName, lHandler, lastSet, handlers, now, endVars, pc>>

\* A SetHandler that keeps the handler it had.
KeepHandler(b) == lHandler

NewHandler(b) == b

SetHandler(b) ==
    /\ proc = "running" /\ pc = "idle"
    /\ lHandler' = NewHandler(b)
    /\ lastSet' = b
    /\ BeginCall("SetHandler", LastInput)
    /\ UNCHANGED <<lName, lLevel, handlers, now, endVars, pc>>

(***************************************************************************)
(* The caller enters a leveled method, Fatal or Panic (Fatal and Panic     *)
(* call Critical first: logging.go:178, 184).                              *)
(***************************************************************************)
Call(o, in) ==
    /\ proc = "running" /\ pc = "idle"
    /\ BeginCall(o, in)
    /\ pc' = "check"
    /\ UNCHANGED <<loggerVars, handlers, now, endVars>>

(***************************************************************************)
(* The pieces of logger.log (logging.go:154-172): the newline a format     *)
(* that lacks one is given, and the Context of the call.                   *)
(***************************************************************************)
\* A logger that adds a newline to every format.
AddNewlineAlways(f) == Append(f, NL)

AddNewline(f) == IF ~HasSuffixNL(f) THEN Append(f, NL) ELSE f

NewContext(level) ==
    [Name |-> lName, Level |-> level, Time |-> now,
     Filename |-> CallerFile(op), Line |-> CallerLine(op)]

(***************************************************************************)
(* The threshold test of a leveled method (logging.go:189-223):            *)
(* if l.Level >= LEVEL { l.log(...) }.  After Critical returns, Fatal and  *)
(* Panic go on to Close (logging.go:179, 185); a leveled call is over.     *)
(***************************************************************************)
\* A threshold test that leaves out the threshold's own level.
EnabledStrict(level) == lLevel > level

Enabled(level) == lLevel >= level

AfterLog(o) == IF o \in {"Fatal", "Panic"} THEN "close" ELSE "idle"

\* A leveled method that builds the Context before it tests the threshold.
CheckAfterContext ==
    /\ proc = "running" /\ pc = "check"
    /\ ctx' = NewContext(OpLevel(op))
    /\ nCtx' = nCtx + 1
    /\ pc' = IF Enabled(OpLevel(op)) THEN "log" ELSE AfterLog(op)
    /\ UNCHANGED <<lName, lLevel, lHandler, lastSet, handlers, now, proc,
                   exitCode, panicValue, op, format, args, entry, lfmt, k, wg,
                   g, logs, closes, clogs, ccloses, rcv, cwritten, written,
                   events>>

Check ==
    /\ proc = "running" /\ pc = "check"
    /\ pc' = IF Enabled(OpLevel(op)) THEN "log" ELSE AfterLog(op)
    /\ UNCHANGED <<loggerVars, handlers, now, endVars, callVars, lfmt, ctx,
                   fanVars, logs, closes, childObs, written, nCtx, events>>

(***************************************************************************)
(* logger.log up to the Context (logging.go:154-172): the missing newline  *)
(* is added to the format and the Context is built.                        *)
(***************************************************************************)
Log ==
    /\ proc = "running" /\ pc = "log"
    /\ lfmt' = AddNewline(format)
    /\ ctx' = NewContext(OpLevel(op))
    /\ nCtx' = nCtx + 1
    /\ pc' = "dispatch"
    /\ UNCHANGED <<loggerVars, handlers, now, endVars, callVars, fanVars,
                   logs, closes, childObs, written, events>>

(***************************************************************************)
(* l.Handler.Log(format, args, ctx) (logging.go:174).  A writer or console *)
(* handler writes and returns; MultiHandler.Log (logging.go:375-377) makes *)
(* its WaitGroup and adds the number of children.                          *)
(***************************************************************************)
StreamLog(h, fmt, a, c) ==
    IF h = "K" THEN ConsoleLog(fmt, a, c) ELSE WriterLog(fmt, a, c)

WgAdd == Len(handlers)

Dispatch ==
    /\ proc = "running" /\ pc = "dispatch"
    /\ logs' = [logs EXCEPT ![lHandler] = @ + 1]
    /\ IF lHandler = "M"
       THEN /\ wg' = WgAdd /\ k' = 1 /\ g' = [i \in Children |-> "none"]
            /\ pc' = "mlog"
            /\ events' = Append(events, "Log")
            /\ UNCHANGED written
       ELSE /\ written' = [written EXCEPT
                             ![lHandler] = @ \o StreamLog(lHandler, lfmt, args, ctx)]
            /\ pc' = AfterLog(op)
            /\ events' = events \o <<"Log", "LogReturn">>
            /\ UNCHANGED fanVars
    /\ UNCHANGED <<loggerVars, handlers, now, endVars, callVars, lfmt, ctx,
                   closes, childObs, nCtx>>

(***************************************************************************)
(* The loop of MultiHandler.Log and MultiHandler.Close (logging.go:378-383 *)
(* and 390-395): one goroutine per child.                                  *)
(***************************************************************************)
Spawn ==
    /\ proc = "running" /\ pc \in {"mlog", "mclose"}
    /\ k <= Len(handlers)
    /\ g' = [g EXCEPT ![k] = "ready"]
    /\ k' = k + 1
    /\ UNCHANGED <<loggerVars, handlers, now, endVars, pc, callVars, lfmt, ctx,
                   wg, logs, closes, childObs, written, nCtx, events>>

(***************************************************************************)
(* A child's goroutine in MultiHandler.Log (logging.go:379-382):           *)
(* handler.Log(format, args, ctx), then wg.Done().  A user's handler may   *)
(* panic in Log; nothing recovers a goroutine's panic, so the Go runtime   *)
(* ends the process with status 2.                                         *)
(***************************************************************************)
\* A fan-out that stamps the Context again at delivery.
ChildRecordRestamped ==
    [format |-> lfmt, args |-> args, ctx |-> [ctx EXCEPT !.Time = now]]

ChildRecord == [format |-> lfmt, args |-> args, ctx |-> ctx]

\* The Write calls one Log of a child makes on its stream: one Fprint for
\* a writer handler, three writes for a console handler.
ChildWrites(kind, r) ==
    CASE kind = "writer"  -> << WriterLog(r.format, r.args, r.ctx) >>
      [] kind = "console" -> ConsoleWrites(r.format, r.args, r.ctx)
      [] OTHER            -> <<>>

Faults(kind) == IF kind = "user" THEN BOOLEAN ELSE {FALSE}

\* Where a goroutine is after j of n writes.
AfterWrites(j, n) ==
    IF j >= n THEN "returned" ELSE IF j = 1 THEN "wrote1" ELSE "wrote2"

WritesDone(st) == IF st = "wrote1" THEN 1 ELSE 2

\* The goroutine enters handler.Log: a user's handler returns or panics, a
\* stream handler makes its first write.
ChildLog(i) ==
    /\ proc = "running" /\ pc = "mlog" /\ g[i] = "ready"
    /\ clogs' = [clogs EXCEPT ![i] = @ + 1]
    /\ rcv' = [rcv EXCEPT ![i] = ChildRecord]
    /\ LET ws == ChildWrites(handlers[i], ChildRecord) IN
       \E fault \in Faults(handlers[i]) :
         IF fault
         THEN /\ g' = [g EXCEPT ![i] = "panicked"]
              /\ proc' = "crashed" /\ exitCode' = 2
              /\ UNCHANGED cwritten
         ELSE /\ g' = [g EXCEPT ![i] = AfterWrites(1, Len(ws))]
              /\ cwritten' = [cwritten EXCEPT
                                ![i] = IF ws = <<>> THEN @ ELSE @ \o ws[1]]
              /\ UNCHANGED <<proc, exitCode>>
    /\ UNCHANGED <<loggerVars, handlers, now, panicValue, pc, callVars, lfmt,
                   ctx, k, wg, logs, closes, ccloses, written, nCtx, events>>

\* The next write of a console handler's Log (logging.go:306, 307), while
\* the other goroutines run.
ChildWrite(i) ==
    /\ proc = "running" /\ pc = "mlog" /\ g[i] \in {"wrote1", "wrote2"}
    /\ LET ws == ChildWrites(handlers[i], rcv[i])
           j  == WritesDone(g[i]) + 1
       IN  /\ cwritten' = [cwritten EXCEPT ![i] = @ \o ws[j]]
           /\ g' = [g EXCEPT ![i] = AfterWrites(j, Len(ws))]
    /\ UNCHANGED <<loggerVars, handlers, now, endVars, pc, callVars, lfmt, ctx,
                   k, wg, logs, closes, clogs, ccloses, rcv, written, nCtx,
                   events>>

(***************************************************************************)
(* A child's goroutine in MultiHandler.Close (logging.go:391-394).         *)
(***************************************************************************)
ChildClose(i) ==
    /\ proc = "running" /\ pc = "mclose" /\ g[i] = "ready"
    /\ ccloses' = [ccloses EXCEPT ![i] = @ + 1]
    /\ \E fault \in Faults(handlers[i]) :
         IF fault
         THEN /\ g' = [g EXCEPT ![i] = "panicked"]
              /\ proc' = "crashed" /\ exitCode' = 2
         ELSE /\ g' = [g EXCEPT ![i] = "returned"]
              /\ UNCHANGED <<proc, exitCode>>
    /\ UNCHANGED <<loggerVars, handlers, now, panicValue, pc, callVars, lfmt,
                   ctx, k, wg, logs, closes, clogs, rcv, cwritten, written,
                   nCtx, events>>

ChildDone(i) ==
    /\ proc = "running" /\ pc \in {"mlog", "mclose"} /\ g[i] = "returned"
    /\ wg' = wg - 1
    /\ g' = [g EXCEPT ![i] = "done"]
    /\ UNCHANGED <<loggerVars, handlers, now, endVars, pc, callVars, lfmt, ctx,
                   k, logs, closes, childObs, written, nCtx, events>>

(***************************************************************************)
(* wg.Wait() (logging.go:384 and 396) returns when the counter is zero,    *)
(* and MultiHandler.Log or Close returns to the logger.                    *)
(***************************************************************************)
\* A fan-out that does not wait.
WaitSkipped == TRUE

WaitReturns == wg = 0

AfterClose(o) == IF o = "Close" THEN "idle" ELSE "term"

Wait ==
    /\ proc = "running" /\ pc \in {"mlog", "mclose"}
    /\ k > Len(handlers)
    /\ WaitReturns
    /\ IF pc = "mlog"
       THEN pc' = AfterLog(op) /\ events' = Append(events, "LogReturn")
       ELSE pc' = AfterClose(op) /\ events' = Append(events, "CloseReturn")
    /\ UNCHANGED <<loggerVars, handlers, now, endVars, callVars, lfmt, ctx,
                   fanVars, logs, closes, childObs, written, nCtx>>

(***************************************************************************)
(* logger.Close (logging.go:142-144): l.Handler.Close().  The writer and   *)
(* console handlers' Close does nothing (logging.go:284, 311);             *)
(* MultiHandler.Close (logging.go:387-389) fans out.                       *)
(***************************************************************************)
CallClose ==
    /\ proc = "running" /\ pc = "idle"
    /\ BeginCall("Close", LastInput)
    /\ pc' = "close"
    /\ UNCHANGED <<loggerVars, handlers, now, endVars>>

Close ==
    /\ proc = "running" /\ pc = "close"
    /\ closes' = [closes EXCEPT ![lHandler] = @ + 1]
    /\ IF lHandler = "M"
       THEN /\ wg' = WgAdd /\ k' = 1 /\ g' = [i \in Children |-> "none"]
            /\ pc' = "mclose"
            /\ events' = Append(events, "Close")
       ELSE /\ pc' = AfterClose(op)
            /\ events' = events \o <<"Close", "CloseReturn">>
            /\ UNCHANGED fanVars
    /\ UNCHANGED <<loggerVars, handlers, now, endVars, callVars, lfmt, ctx,
                   logs, childObs, written, nCtx>>

(***************************************************************************)
(* The end of Fatal, os.Exit(1) (logging.go:180), and of Panic,            *)
(* panic(fmt.Sprintf(format, args...)) (logging.go:186).                   *)
(***************************************************************************)
Terminate ==
    /\ proc = "running" /\ pc = "term"
    /\ IF op = "Fatal"
       THEN /\ proc' = "exit" /\ exitCode' = 1
            /\ events' = Append(events, "Exit")
            /\ UNCHANGED panicValue
       ELSE /\ proc' = "panic" /\ panicValue' = Sprintf(format, args)
            /\ events' = Append(events, "Panic")
            /\ UNCHANGED exitCode
    /\ UNCHANGED <<loggerVars, handlers, now, pc, callVars, lfmt, ctx, fanVars,
                   logs, closes, childObs, written, nCtx>>

(***************************************************************************)
(* Time passes.                                                            *)
(***************************************************************************)
Tick ==
    /\ proc = "running" /\ now < MaxTime
    /\ now' = now + 1
    /\ UNCHANGED <<loggerVars, handlers, endVars, pc, callVars, lfmt, ctx,
                   fanVars, logs, closes, childObs, written, nCtx, events>>

(***************************************************************************)
(* The logger with all its handlers and the fan-out's goroutines.          *)
(***************************************************************************)
Next ==
    \/ \E level \in LevelInputs : SetLevel(level)
    \/ \E b \in Sinks : SetHandler(b)
    \/ \E o \in LeveledOps \cup {"Fatal", "Panic"}, in \in CallInputs : Call(o, in)
    \/ Check
    \/ Log
    \/ Dispatch
    \/ Spawn
    \/ \E i \in Children : ChildLog(i)
    \/ \E i \in Children : ChildWrite(i)
    \/ \E i \in Children : ChildClose(i)
    \/ \E i \in Children : ChildDone(i)
    \/ Wait
    \/ CallClose
    \/ Close
    \/ Terminate
    \/ Tick

Spec == Init /\ [][Next]_vars

(***************************************************************************)
(* The text a call writes through a stream handler, for every short        *)
(* format and argument list: a caller that logs one template, drawn at the *)
(* start, at any level through the logger's writer and console handlers.   *)
(***************************************************************************)
InitFmt ==
    /\ lName = "svc"
    /\ lLevel = DefaultLevel
    /\ lHandler = DefaultHandler
    /\ lastSet = DefaultHandler
    /\ handlers = <<>>
    /\ now = 0
    /\ proc = "running" /\ exitCode = 0 /\ panicValue = <<>>
    /\ pc = "idle" /\ op = "none"
    /\ \E in \in WideInputs : format = in.format /\ args = in.args
    /\ lfmt = <<>> /\ ctx = NoCtx
    /\ k = 1 /\ wg = 0 /\ g = <<>>
    /\ logs = [h \in Sinks |-> 0] /\ closes = [h \in Sinks |-> 0]
    /\ clogs = <<>> /\ ccloses = <<>> /\ rcv = <<>>
    /\ written = [s \in Streams |-> <<>>]
    /\ cwritten = <<>>
    /\ nCtx = 0 /\ events = <<>>
    /\ entry = [Name |-> "svc", Level |-> DefaultLevel, Handler |-> DefaultHandler]

NextFmt ==
    \/ \E b \in Streams : SetHandler(b)
    \/ \E o \in LeveledOps : Call(o, [format |-> format, args |-> args])
    \/ Check
    \/ Log
    \/ Dispatch

SpecFmt == InitFmt /\ [][NextFmt]_vars

(***************************************************************************)
(* What the properties below speak of.                                     *)
(***************************************************************************)
Range(f) == {f[i] : i \in DOMAIN f}

IsPrefix(s, t) == Len(s) <= Len(t) /\ SubSeq(t, 1, Len(s)) = s

Max(a, b) == IF a >= b THEN a ELSE b

\* The leveled call in flight, or the last one, passes the threshold.
PassesThreshold == op \in LeveledOps /\ OpLevel(op) <= lLevel

\* The call has returned to its caller.
Returned == pc = "idle" /\ proc = "running"

\* MultiHandler.Log has returned in this call.
MultiLogReturned == logs["M"] = 1 /\ "LogReturn" \in Range(events)

\* The message a stream handler wrote, without the console's escapes.
Message(h) ==
    IF h = "K" /\ Len(written[h]) >= 2
    THEN SubSeq(written[h], 2, Len(written[h]) - 1)
    ELSE written[h]

(***************************************************************************)
(* C1.  A leveled call at level L on a logger with threshold T invokes the *)
(* configured sink's Log at most once while it runs, exactly once by the   *)
(* time it returns if L <= T, and never if L > T; no other sink's Log is   *)
(* invoked.                                                                *)
(***************************************************************************)
C1_ThresholdFilter ==
    op \in LeveledOps =>
        LET want == IF OpLevel(op) <= lLevel THEN 1 ELSE 0 IN
        /\ logs[lHandler] <= want
        /\ \A h \in Sinks \ {lHandler} : logs[h] = 0
        /\ Returned => logs[lHandler] = want

\* Warning at threshold WARNING (set with SetLevel) was delivered once.
C1_Witness ==
    /\ Returned /\ op = "Warning" /\ lLevel = WARNING
    /\ logs[lHandler] = 1

(***************************************************************************)
(* C2.  In one call of MultiHandler.Log no child's Log is invoked more     *)
(* than once, every child that is invoked is handed the format, the        *)
(* arguments and the Context the logger dispatched (built before the       *)
(* dispatch), and when MultiHandler.Log returns every child has been       *)
(* invoked exactly once.                                                   *)
(***************************************************************************)
C2_FanOutComplete ==
    /\ \A i \in Children :
         /\ clogs[i] <= 1
         /\ clogs[i] = 1 => rcv[i] = [format |-> lfmt, args |-> args, ctx |-> ctx]
         /\ clogs[i] = 1 => rcv[i].ctx.Time <= now /\ nCtx = 1
    /\ MultiLogReturned => \A i \in Children : clogs[i] = 1

\* Two children were both served, after the clock had moved on.
C2_Witness ==
    /\ MultiLogReturned /\ Len(handlers) = 2
    /\ \A i \in Children : clogs[i] = 1 /\ rcv[i].ctx.Time < now

(***************************************************************************)
(* C3.  Fault isolation of MultiHandler.Log: a child whose Log panics does *)
(* not end the process (the other children go on and the call returns).    *)
(***************************************************************************)
C3_LogFaultIsolated ==
    (pc = "mlog" /\ \E i \in Children : g[i] = "panicked") => proc = "running"

(***************************************************************************)
(* C4.  Fault isolation of MultiHandler.Close: a child whose Close panics  *)
(* does not end the process (the other children are closed and the call    *)
(* returns).                                                               *)
(***************************************************************************)
C4_CloseFaultIsolated ==
    (pc = "mclose" /\ \E i \in Children : g[i] = "panicked") => proc = "running"

(***************************************************************************)
(* C5.  A leveled call that passes the threshold has returned only if the  *)
(* sink's Log has returned, and with the MultiHandler only if every        *)
(* child's goroutine has run its Log and finished; and once every child's  *)
(* goroutine has finished (at once, for no children), MultiHandler.Log can *)
(* return.                                                                 *)
(***************************************************************************)
C5_SynchronousJoin ==
    /\ (PassesThreshold /\ Returned) =>
         /\ events = <<"Log", "LogReturn">>
         /\ lHandler = "M" => \A i \in Children : g[i] = "done" /\ clogs[i] = 1
    /\ (pc = "mlog" /\ proc = "running" /\ k > Len(handlers)
          /\ \A i \in Children : g[i] = "done") => ENABLED Wait

\* A leveled call through a MultiHandler of two children has returned.
C5_Witness ==
    /\ PassesThreshold /\ Returned /\ lHandler = "M" /\ Len(handlers) = 2
    /\ \A i \in Children : g[i] = "done"

(***************************************************************************)
(* C6, as stated.  Fatal ends the process with status 1, and Panic raises  *)
(* its panic with the formatted message, only after the sink's Log was     *)
(* called at CRITICAL and returned and then the sink's Close was called    *)
(* once and returned, in this order, no step skipped, with every child of  *)
(* a MultiHandler logged to and closed once; and no other call reaches the *)
(* exit or the panic.                                                      *)
(***************************************************************************)
C6_FatalPanicOrder ==
    LET steps(last) == <<"Log", "LogReturn", "Close", "CloseReturn", last>>
        done == /\ logs[lHandler] = 1 /\ closes[lHandler] = 1
                /\ ctx.Level = CRITICAL
                /\ lHandler = "M" =>
                     \A i \in Children : clogs[i] = 1 /\ ccloses[i] = 1
    IN  /\ op = "Fatal" => IsPrefix(events, steps("Exit"))
        /\ op = "Panic" => IsPrefix(events, steps("Panic"))
        /\ proc = "exit" =>
             op = "Fatal" /\ exitCode = 1 /\ events = steps("Exit") /\ done
        /\ proc = "panic" =>
             /\ op = "Panic" /\ events = steps("Panic") /\ done
             /\ panicValue = Sprintf(format, args)
        /\ op \notin {"Fatal", "Panic"} =>
             /\ proc \notin {"exit", "panic"}
             /\ pc # "term"
             /\ "Exit" \notin Range(events) /\ "Panic" \notin Range(events)

(***************************************************************************)
(* C7, as stated.  The message a delivered call writes ends in exactly one *)
(* newline, for every format and argument list.                            *)
(***************************************************************************)
C7_ExactlyOneNewline ==
    (Returned /\ op \in LeveledOps /\ logs[lHandler] = 1) =>
        TrailingNewlines(Message(lHandler)) = 1

(***************************************************************************)
(* C7, amended.  The format the logger hands to the sink is the caller's   *)
(* with one newline added if it did not end in one and unchanged if it     *)
(* did, so it always ends in a newline; and for a format without "%" and   *)
(* no arguments the message written ends in the format's own trailing      *)
(* newlines, or in one if it had none.                                     *)
(***************************************************************************)
C7_NewlineAddedOnce ==
    (op \in LeveledOps /\ nCtx = 1) =>
        /\ HasSuffixNL(lfmt)
        /\ lfmt = IF HasSuffixNL(format) THEN format ELSE format \o <<NL>>
        /\ (logs[lHandler] = 1 /\ "%" \notin Range(format) /\ args = <<>>) =>
             TrailingNewlines(Message(lHandler))
                = Max(1, TrailingNewlines(format))

\* "h\n" was logged through the writer handler: one newline at the end.
C7_Witness ==
    /\ Returned /\ op \in LeveledOps /\ lHandler = "W" /\ logs["W"] = 1
    /\ format = <<"h", NL>> /\ args = <<>>
    /\ lfmt = format
    /\ TrailingNewlines(written["W"]) = 1

(***************************************************************************)
(* C8.  A leveled call below the threshold does nothing: it builds no      *)
(* Context and formats nothing, no sink's Log or Close is invoked, nothing *)
(* is written to any stream, and the logger's name, threshold and sink are *)
(* as they were when the call began.                                       *)
(***************************************************************************)
C8_BelowThresholdNoEffect ==
    (op \in LeveledOps /\ OpLevel(op) > lLevel) =>
        /\ pc \in {"check", "idle"} /\ proc = "running"
        /\ nCtx = 0 /\ ctx = NoCtx /\ lfmt = <<>>
        /\ \A h \in Sinks : logs[h] = 0 /\ closes[h] = 0
        /\ \A i \in Children :
             clogs[i] = 0 /\ ccloses[i] = 0 /\ cwritten[i] = <<>> /\ g[i] = "none"
        /\ \A s \in Streams : written[s] = <<>>
        /\ events = <<>>
        /\ entry = [Name |-> lName, Level |-> lLevel, Handler |-> lHandler]

\* Debug on a logger at INFO has returned.
C8_Witness ==
    /\ Returned /\ op = "Debug" /\ lLevel = INFO /\ lHandler = "M"
    /\ nCtx = 0

(***************************************************************************)
(* C9.  What a Log call writes to a console handler's stream is the colour *)
(* escape of the Context's level, then the prefix and the formatted        *)
(* message, then the reset escape, in this order: at any moment the stream *)
(* holds the first few of these three writes, all three once the Log has   *)
(* returned, and nothing if the handler was not called.                    *)
(***************************************************************************)
C9_ConsoleBracket ==
    LET escape(level) == "^[[" \o ToString(LevelColors(level)) \o "m"
        line(r) == prefix(r.ctx) \o Sprintf(r.format, r.args)
        upTo(r, j) ==
            CASE j = 0 -> <<>>
              [] j = 1 -> <<escape(r.ctx.Level)>>
              [] j = 2 -> <<escape(r.ctx.Level)>> \o line(r)
              [] OTHER -> <<escape(r.ctx.Level)>> \o line(r) \o <<"^[[0m">>
    IN  /\ IF logs["K"] = 1
           THEN /\ written["K"] = upTo([format |-> lfmt, args |-> args, ctx |-> ctx], 3)
                /\ ctx.Level = OpLevel(op)
           ELSE written["K"] = <<>>
        /\ \A i \in Children :
             handlers[i] = "console" =>
                IF clogs[i] = 1
                THEN /\ \E j \in 1..3 : cwritten[i] = upTo(rcv[i], j)
                     /\ g[i] \in {"returned", "done"} => cwritten[i] = upTo(rcv[i], 3)
                ELSE cwritten[i] = <<>>

\* Error through the console handler: red first, the reset last.
C9_Witness ==
    /\ Returned /\ op = "Error" /\ lHandler = "K" /\ logs["K"] = 1
    /\ Head(written["K"]) = "^[[31m"
    /\ written["K"][Len(written["K"])] = "^[[0m"

(***************************************************************************)
(* C10.  The logger's sink is the one the last SetHandler was given (the   *)
(* default before any); in a call only that sink's Log and Close are       *)
(* invoked, and the MultiHandler's children only when it is that sink.     *)
(***************************************************************************)
C10_SingleSink ==
    /\ lHandler = lastSet
    /\ \A h \in Sinks \ {lastSet} : logs[h] = 0 /\ closes[h] = 0
    /\ \A s \in Streams \ {lastSet} : written[s] = <<>>
    /\ lastSet # "M" => \A i \in Children : clogs[i] = 0 /\ ccloses[i] = 0

\* After SetHandler replaced the default, Fatal logged to and closed the new sink.
C10_Witness ==
    /\ proc = "exit" /\ lastSet = "W"
    /\ logs["W"] = 1 /\ closes["W"] = 1 /\ logs["K"] = 0 /\ closes["K"] = 0

=============================================================================
